---- MODULE Spec2Model ----
(***************************************************************************)
(* The admission -> payment pipeline of the gym application                *)
(* (body/views.py, body/forms.py, body/models.py).                         *)
(*                                                                         *)
(* Text is a sequence of one-character strings, money is a whole number of *)
(* hundredths (DecimalField(decimal_places=2)), a date is a day number     *)
(* counted from the day of the requests (yesterday is -1).                 *)
(* An optional POST field is <<>> when absent and <<v>> when present.      *)
(* req is the request line and the parts of the request the payment views  *)
(* read; the POST data of the admission form shows in the row it stores.   *)
(* Under Spec the requests are answered one at a time: a view answers a    *)
(* request in one step, the response is sent in the next.                  *)
(* A message is written in ASCII (the dash of "Application submitted").    *)
(* The Admission fields without a part in the pipeline (names, email,      *)
(* date_of_birth, photo, the applicant's upi_id) are left out together     *)
(* with their validators, which can only reject a form.  A total beyond    *)
(* max_digits=10 takes a duration of tens of thousands of months and is    *)
(* outside the durations drawn here.                                       *)
(***************************************************************************)
EXTENDS Integers, Sequences, FiniteSets, TLC

\* ------------------------------------------------------------------ bounds
MaxMonths == 2
MaxAdmissions == 1
MaxPayments == 1

\* ------------------------------------------------------- program constants
DecimalPlaces == 2
MinRefLen == 4
MaxRefLen == 128
MaxUpiIdLen == 100
MaxPhoneLen == 20
MinPhoneDigits == 7
MaxPhoneDigits == 15
MinDurationMonths == 0

\* ---------------------------------------------------------------- text
Rep(c, n) == [i \in 1..n |-> c]

DigitChars == <<"0", "1", "2", "3", "4", "5", "6", "7", "8", "9">>

UpperChars ==
  <<"A", "B", "C", "D", "E", "F", "G", "H", "I", "J", "K", "L", "M",
    "N", "O", "P", "Q", "R", "S", "T", "U", "V", "W", "X", "Y", "Z">>

LowerChars ==
  <<"a", "b", "c", "d", "e", "f", "g", "h", "i", "j", "k", "l", "m",
    "n", "o", "p", "q", "r", "s", "t", "u", "v", "w", "x", "y", "z">>

Range(s) == {s[i] : i \in 1..Len(s)}

IsDigit(c) == c \in Range(DigitChars)

IsSpace(c) == c \in {" ", "\t", "\n"}

\* str.lower()
LowerChar(c) ==
  IF c \in Range(UpperChars)
    THEN LowerChars[CHOOSE i \in 1..Len(UpperChars) : UpperChars[i] = c]
    ELSE c

Lower(s) == [i \in 1..Len(s) |-> LowerChar(s[i])]

\* k in s
Contains(s, k) ==
  \E i \in 0..(Len(s) - Len(k)) : SubSeq(s, i + 1, i + Len(k)) = k

\* str.replace(c, "")
RECURSIVE Remove(_, _)
Remove(s, c) ==
  IF s = <<>> THEN <<>>
  ELSE IF Head(s) = c THEN Remove(Tail(s), c)
  ELSE <<Head(s)>> \o Remove(Tail(s), c)

\* str.strip()
RECURSIVE LStrip(_)
LStrip(s) ==
  IF s # <<>> /\ IsSpace(Head(s)) THEN LStrip(Tail(s)) ELSE s

RECURSIVE RStrip(_)
RStrip(s) ==
  IF s # <<>> /\ IsSpace(s[Len(s)]) THEN RStrip(SubSeq(s, 1, Len(s) - 1)) ELSE s

Strip(s) == RStrip(LStrip(s))

\* str(int)
RECURSIVE NatStr(_)
NatStr(n) ==
  IF n < 10 THEN <<DigitChars[n + 1]>>
  ELSE NatStr(n \div 10) \o <<DigitChars[(n % 10) + 1]>>

RECURSIVE Pow10(_)
Pow10(k) == IF k = 0 THEN 1 ELSE 10 * Pow10(k - 1)

Scale == Pow10(DecimalPlaces)

\* the k low digits of n, zero padded
RECURSIVE FracStr(_, _)
FracStr(n, k) ==
  IF k = 0 THEN <<>>
  ELSE FracStr(n \div 10, k - 1) \o <<DigitChars[(n % 10) + 1]>>

\* str(Decimal) of an amount with DecimalPlaces places
DecimalStr(amount) ==
  IF amount < 0
    THEN <<"-">> \o NatStr((0 - amount) \div Scale) \o <<".">>
                 \o FracStr((0 - amount) % Scale, DecimalPlaces)
    ELSE NatStr(amount \div Scale) \o <<".">> \o FracStr(amount % Scale, DecimalPlaces)

\* urllib.parse.quote_plus: letters, digits and _.-~ are kept, a space becomes
\* "+", every other character is percent-encoded
PercentCode(c) ==
  CASE c = "@" -> <<"%", "4", "0">>
    [] c = "+" -> <<"%", "2", "B">>
    [] c = "/" -> <<"%", "2", "F">>
    [] c = ":" -> <<"%", "3", "A">>
    [] c = "&" -> <<"%", "2", "6">>
    [] c = "=" -> <<"%", "3", "D">>
    [] c = "\t" -> <<"%", "0", "9">>
    [] OTHER -> <<"%", "3", "F">>

QuoteChar(c) ==
  IF \/ c \in Range(UpperChars) \/ c \in Range(LowerChars)
     \/ IsDigit(c) \/ c \in {"_", ".", "-", "~"}
    THEN <<c>>
  ELSE IF c = " " THEN <<"+">>
  ELSE PercentCode(c)

RECURSIVE quote_plus(_)
quote_plus(s) ==
  IF s = <<>> THEN <<>> ELSE QuoteChar(Head(s)) \o quote_plus(Tail(s))

\* ---------------------------------------------------------------- data
\* create_default_plans: the rows of MembershipPlan, by primary key
default_plans ==
  <<[name |-> "Basic", price_month |-> 999],
    [name |-> "Premium", price_month |-> 1999],
    [name |-> "Elite", price_month |-> 2999]>>

PlanIds == 1..Len(default_plans)

\* MembershipPlan.price_month as stored, in hundredths
price_month(p) == default_plans[p].price_month * Scale

\* uuid.uuid4 draws from this pool; the values are interchangeable
Uuids == 1..(MaxPayments + 1)

\* str(uuid)
UuidStr(u) == <<"a", "0", "-">> \o NatStr(u) \o <<"-", "f">>

VARIABLES
  today,       \* datetime.date.today()
  plans,       \* primary keys of the MembershipPlan rows
  admissions,  \* Admission rows, the primary key is the index
  payments,    \* AdmissionPayment rows, the primary key is the index
  req,         \* the request being answered
  resp,        \* its response
  workers      \* requests to confirm_payment in progress, step by step

vars == <<today, plans, admissions, payments, req, resp, workers>>

Workers == {"w1", "w2"}

NoReq ==
  [view |-> "", method |-> "", id |-> 0, ref |-> <<>>, agent |-> <<>>]

NoResp ==
  [kind |-> "", to |-> "", id |-> 0, msg |-> "", upi_link |-> <<>>,
   payment |-> 0, amount |-> <<>>]

\* a request to confirm_payment: where it stands, the payment object it
\* loaded and changed, and its response
IdleWorker == [pc |-> "idle", id |-> 0, upi_id |-> <<>>, status |-> "", resp |-> NoResp]

Render(template, msg) == [NoResp EXCEPT !.kind = "render", !.to = template, !.msg = msg]

Redirect(name, id, msg) ==
  [NoResp EXCEPT !.kind = "redirect", !.to = name, !.id = id, !.msg = msg]

\* get_object_or_404 found no row
Http404 == [NoResp EXCEPT !.kind = "404"]

\* an exception left the view
Http500 == [NoResp EXCEPT !.kind = "500"]

\* ------------------------------------------------------------- inputs
Methods == {"GET", "POST"}

Phones ==
  { <<"+", "9", "1", " ", "9", "8", "7", "6", "5", "-", "4", "3", "2", "1", "0">>,
    <<"9", "8", "7", "-", "6", "5", "4">> }

\* yesterday and today
StartDates == {0 - 1, 0}

NoForm ==
  [plan |-> <<>>, duration_months |-> <<>>, start_date |-> <<>>,
   agreed_terms |-> FALSE, phone |-> <<>>]

Forms ==
  [plan : {<<>>} \cup {<<p>> : p \in PlanIds},
   duration_months : {<<m>> : m \in (0 - 1)..MaxMonths},
   start_date : {<<d>> : d \in StartDates},
   agreed_terms : BOOLEAN,
   phone : Phones]

Refs ==
  { <<>>,
    <<"A", "B", "C">>,
    <<" ", "T", "X", "N", "2", "\t">>,
    <<"A", "B", " ", "C", "1">>,
    Rep("9", MaxRefLen),
    Rep("9", MaxRefLen + 1) }

Agents ==
  { <<>>,
    <<"W", "i", "n", "6", "4">>,
    <<"i", "P", "h", "o", "n", "e">>,
    <<"X", " ", "A", "N", "D", "R", "O", "I", "D">>,
    <<"M", "o", "b", "i", "l", "e">>,
    <<"P", "h", "o", "n", "e">> }

AdmissionIds == 1..MaxAdmissions
PaymentIds == 1..MaxPayments

\* --------------------------------------------------------------- forms.py
\* ModelChoiceField(queryset=MembershipPlan.objects.all(), required=True)
clean_plan(form) == form.plan # <<>> /\ form.plan[1] \in plans

\* PositiveIntegerField: a required IntegerField with min_value 0
clean_duration_months(form) ==
  form.duration_months # <<>> /\ form.duration_months[1] >= MinDurationMonths

\* any date given
clean_start_date_any(form) == form.start_date # <<>>

clean_start_date(form) ==
  form.start_date # <<>> /\ ~(form.start_date[1] < today)

PhoneRegex(s) ==
  LET d == IF s # <<>> /\ Head(s) = "+" THEN Tail(s) ELSE s
  IN  /\ Len(d) >= MinPhoneDigits
      /\ Len(d) <= MaxPhoneDigits
      /\ \A i \in 1..Len(d) : IsDigit(d[i])

\* CharField(max_length=20), required, then clean_phone
clean_phone(form) ==
  LET phone == Strip(form.phone)
      sanitized == Remove(Remove(phone, "-"), " ")
  IN  /\ phone # <<>>
      /\ Len(phone) <= MaxPhoneLen
      /\ PhoneRegex(sanitized)

clean_agreed_terms(form) == form.agreed_terms

is_valid(form) ==
  /\ clean_plan(form)
  /\ clean_duration_months(form)
  /\ clean_start_date(form)
  /\ clean_phone(form)
  /\ clean_agreed_terms(form)

\* AdmissionForm.save(commit=False): the instance built from cleaned_data
AdmissionForm_save(form) ==
  LET plan == form.plan
      months == form.duration_months[1]
  IN  [plan |-> plan,
       duration_months |-> months,
       start_date |-> form.start_date[1],
       agreed_terms |-> form.agreed_terms,
       phone |-> Strip(form.phone),
       total_amount |-> IF plan # <<>> THEN price_month(plan[1]) * months ELSE 0]

\* --------------------------------------------------------------- views.py
\* the monthly price, whatever the duration
view_total_amount_one_month(admission) ==
  IF admission.plan # <<>> THEN price_month(admission.plan[1]) ELSE 0

\* the amount admission_form puts on the instance before saving it
view_total_amount(admission) ==
  IF admission.plan # <<>>
    THEN LET months == IF admission.duration_months \in Int
                         THEN admission.duration_months ELSE 1
         IN  price_month(admission.plan[1]) * months
    ELSE 0

admission_form(method, form) ==
  /\ req = NoReq
  /\ req' = [NoReq EXCEPT !.view = "admission_form", !.method = method]
  /\ IF method = "POST" /\ is_valid(form)
       THEN /\ Len(admissions) < MaxAdmissions
            /\ LET admission == AdmissionForm_save(form)
               IN  admissions' = Append(admissions,
                     [admission EXCEPT !.total_amount = view_total_amount(admission)])
            /\ resp' = Redirect("payment_form", Len(admissions) + 1,
                                "Application submitted - continue to payment.")
       ELSE /\ admissions' = admissions
            /\ resp' = Render("admission_form.html",
                              IF method = "POST" THEN "Fix the errors and try again." ELSE "")
  /\ UNCHANGED <<today, plans, payments, workers>>

\* what payment_form requires of an admission
payment_form_accepts(admission) ==
  ~(admission.plan = <<>> \/ admission.total_amount <= 0)

payment_form(method, admission_id) ==
  /\ req = NoReq
  /\ req' = [NoReq EXCEPT !.view = "payment_form", !.method = method, !.id = admission_id]
  /\ resp' = IF admission_id \notin 1..Len(admissions) THEN Http404
             ELSE IF ~payment_form_accepts(admissions[admission_id])
               THEN Redirect("admission_form", 0, "Invalid plan or payment amount.")
             ELSE Render("payment_form.html", "")
  /\ UNCHANGED <<today, plans, admissions, payments, workers>>

\* "mobi", "android", "iphone"
MobileKeys ==
  { <<"m", "o", "b", "i">>,
    <<"a", "n", "d", "r", "o", "i", "d">>,
    <<"i", "p", "h", "o", "n", "e">> }

\* the keys sought in the User-Agent as sent
is_mobile_as_sent(agent) == \E k \in MobileKeys : Contains(agent, k)

\* any(k in agent for k in (...)) on the lower-cased User-Agent
is_mobile(agent) ==
  LET a == Lower(agent) IN \E k \in MobileKeys : Contains(a, k)

UPI_ID ==
  <<"y", "u", "v", "r", "a", "j", "p", "r", "a", "j", "a", "p", "a", "t", "i",
    "5", "6", "6", "5", "@", "o", "k", "h", "d", "f", "c", "b", "a", "n", "k">>

merchant_name == <<"G", "Y", "M", "-", "S", "H", "I", "M">>

\* f"Admission-{admission.id}"
note(admission_id) == <<"A", "d", "m", "i", "s", "s", "i", "o", "n", "-">> \o NatStr(admission_id)

\* the deep link "upi://pay?k=v&k=v...", as its parameters in order
upi_link(admission_id, amount_str, transaction_id) ==
  << <<"pa", quote_plus(UPI_ID)>>,
     <<"pn", quote_plus(merchant_name)>>,
     <<"am", quote_plus(amount_str)>>,
     <<"tn", quote_plus(note(admission_id))>>,
     <<"tr", quote_plus(UuidStr(transaction_id))>>,
     <<"cu", <<"I", "N", "R">>>> >>

UsedUuids == {payments[i].transaction_id : i \in 1..Len(payments)}

\* uuid.uuid4(): a value no row has (unique=True), here the largest one free
uuid4 == CHOOSE u \in Uuids \ UsedUuids : \A v \in Uuids \ UsedUuids : v <= u

\* AdmissionPayment.objects.create(admission, amount, payment_mode, status)
new_payment(admission_id, amount, transaction_id) ==
  [admission |-> admission_id,
   amount |-> amount,
   upi_id |-> <<>>,
   transaction_id |-> transaction_id,
   status |-> "pending",
   payment_mode |-> "UPI"]

\* the test left out
plan_missing_never(admission) == FALSE

\* "if not admission.plan"
plan_missing(admission) == admission.plan = <<>>

\* "admission.total_amount or Decimal('0.00')"
amount_of(admission) == admission.total_amount

upi_redirect(method, admission_id, agent) ==
  /\ req = NoReq
  /\ req' = [NoReq EXCEPT !.view = "upi_redirect", !.method = method,
                          !.id = admission_id, !.agent = agent]
  /\ IF method # "POST"
       THEN /\ resp' = Redirect("payment_form", admission_id, "")
            /\ payments' = payments
     ELSE IF admission_id \notin 1..Len(admissions)
       THEN /\ resp' = Http404
            /\ payments' = payments
     ELSE IF plan_missing(admissions[admission_id])
       THEN /\ resp' = Redirect("payment_form", admission_id, "Plan missing. Contact admin.")
            /\ payments' = payments
     ELSE IF amount_of(admissions[admission_id]) <= 0
       THEN /\ resp' = Redirect("payment_form", admission_id, "Invalid payment amount.")
            /\ payments' = payments
     ELSE /\ Len(payments) < MaxPayments
          /\ LET u == uuid4
                   amount_decimal == amount_of(admissions[admission_id])
                   amount_str == DecimalStr(amount_decimal)
                   link == upi_link(admission_id, amount_str, u)
               IN  /\ payments' = Append(payments, new_payment(admission_id, amount_decimal, u))
                   /\ resp' = IF is_mobile(agent)
                                THEN [NoResp EXCEPT !.kind = "redirect", !.to = "upi",
                                                    !.upi_link = link]
                                ELSE [NoResp EXCEPT !.kind = "render", !.to = "upi_redirect.html",
                                                    !.upi_link = link, !.amount = amount_str,
                                                    !.payment = Len(payments) + 1,
                                                    !.id = admission_id]
  /\ UNCHANGED <<today, plans, admissions, workers>>

\* the test without its lower bound
valid_txn_ref_no_min(upi_txn_ref) ==
  ~(\/ ~(Len(upi_txn_ref) <= MaxRefLen)
    \/ \E i \in 1..Len(upi_txn_ref) : IsSpace(upi_txn_ref[i]))

\* the test confirm_payment makes of the stripped reference
valid_txn_ref(upi_txn_ref) ==
  ~(\/ ~(MinRefLen <= Len(upi_txn_ref) /\ Len(upi_txn_ref) <= MaxRefLen)
    \/ \E i \in 1..Len(upi_txn_ref) : IsSpace(upi_txn_ref[i]))

\* payment.save(update_fields=["upi_id", "status"]): UPDATE ... WHERE id
save_payment(rows, payment_id, upi_id, status) ==
  [rows EXCEPT ![payment_id].upi_id = upi_id, ![payment_id].status = status]

\* a database that enforces CharField(max_length) refuses the longer value,
\* one that does not (SQLite) stores it
db_may_store(upi_id) == TRUE
db_may_refuse(upi_id) == Len(upi_id) > MaxUpiIdLen

confirm_payment(method, payment_id, ref) ==
  /\ req = NoReq
  /\ req' = [NoReq EXCEPT !.view = "confirm_payment", !.method = method,
                          !.id = payment_id, !.ref = ref]
  /\ IF method # "POST"
       THEN /\ resp' = Redirect("home", 0, "")
            /\ payments' = payments
     ELSE IF payment_id \notin 1..Len(payments)
       THEN /\ resp' = Http404
            /\ payments' = payments
     ELSE IF payments[payment_id].status # "pending"
       THEN /\ resp' = Redirect("payment_success", 0, "Payment already processed.")
            /\ payments' = payments
     ELSE IF ~valid_txn_ref(Strip(ref))
       THEN /\ resp' = Redirect("upi_redirect", payments[payment_id].admission,
                                "Enter a valid transaction reference.")
            /\ payments' = payments
     ELSE \/ /\ db_may_store(Strip(ref))
             /\ payments' = save_payment(payments, payment_id, Strip(ref), "success")
             /\ resp' = Redirect("payment_success", 0, "Payment verified successfully.")
          \/ /\ db_may_refuse(Strip(ref))
             /\ payments' = payments
             /\ resp' = Http500
  /\ UNCHANGED <<today, plans, admissions, workers>>

\* the views that read and render only
Pages == {"home", "payment_success"}

page(view, method) ==
  /\ req = NoReq
  /\ req' = [NoReq EXCEPT !.view = view, !.method = method]
  /\ resp' = Render(view, "")
  /\ UNCHANGED <<today, plans, admissions, payments, workers>>

\* the response leaves, the next request may come
respond ==
  /\ req # NoReq
  /\ req' = NoReq
  /\ resp' = NoResp
  /\ UNCHANGED <<today, plans, admissions, payments, workers>>

\* ------------------------------------------------------------ environment
\* a MembershipPlan row that admissions refer to is deleted (the admin site):
\* Admission.plan is on_delete=SET_NULL
delete_plan(p) ==
  /\ req = NoReq
  /\ p \in plans
  /\ \E i \in 1..Len(admissions) : admissions[i].plan = <<p>>
  /\ plans' = plans \ {p}
  /\ admissions' = [i \in 1..Len(admissions) |->
                      IF admissions[i].plan = <<p>>
                        THEN [admissions[i] EXCEPT !.plan = <<>>]
                        ELSE admissions[i]]
  /\ UNCHANGED <<today, payments, req, resp, workers>>

\* ------------------------------------------------------------------ Spec
Init ==
  /\ today = 0
  /\ plans = PlanIds
  /\ admissions = <<>>
  /\ payments = <<>>
  /\ req = NoReq
  /\ resp = NoResp
  /\ workers = [w \in Workers |-> IdleWorker]

\* a GET carries no form data
Next ==
  \/ \E f \in Forms : admission_form("POST", f)
  \/ admission_form("GET", NoForm)
  \/ \E m \in Methods, a \in AdmissionIds : payment_form(m, a)
  \/ \E a \in AdmissionIds, ua \in Agents : upi_redirect("POST", a, ua)
  \/ \E a \in AdmissionIds : upi_redirect("GET", a, <<>>)
  \/ \E i \in PaymentIds, r \in Refs : confirm_payment("POST", i, r)
  \/ \E i \in PaymentIds : confirm_payment("GET", i, <<>>)
  \/ \E v \in Pages : page(v, "GET")
  \/ respond
  \/ \E p \in PlanIds : delete_plan(p)

Spec == Init /\ [][Next]_vars

\* ------------------------------------------------- concurrent requests
\* confirm_payment up to its save: the row is read once, the tests and the
\* assignments are on the object in the request's memory
confirm_begin(w, method, payment_id, ref) ==
  /\ workers[w].pc = "idle"
  /\ workers' = [workers EXCEPT ![w] =
       IF method # "POST"
         THEN [@ EXCEPT !.pc = "done", !.id = payment_id, !.resp = Redirect("home", 0, "")]
       ELSE IF payment_id \notin 1..Len(payments)
         THEN [@ EXCEPT !.pc = "done", !.id = payment_id, !.resp = Http404]
       ELSE IF payments[payment_id].status # "pending"
         THEN [@ EXCEPT !.pc = "done", !.id = payment_id,
                        !.resp = Redirect("payment_success", 0, "Payment already processed.")]
       ELSE IF ~valid_txn_ref(Strip(ref))
         THEN [@ EXCEPT !.pc = "done", !.id = payment_id,
                        !.resp = Redirect("upi_redirect", payments[payment_id].admission,
                                          "Enter a valid transaction reference.")]
       ELSE [@ EXCEPT !.pc = "save", !.id = payment_id,
                      !.upi_id = Strip(ref), !.status = "success"]]
  /\ UNCHANGED <<today, plans, admissions, payments, req, resp>>

\* payment.save(update_fields=["upi_id", "status"]) and the response
confirm_save(w) ==
  /\ workers[w].pc = "save"
  /\ \/ /\ db_may_store(workers[w].upi_id)
        /\ payments' = save_payment(payments, workers[w].id, workers[w].upi_id,
                                    workers[w].status)
        /\ workers' = [workers EXCEPT ![w].pc = "done",
                         ![w].resp = Redirect("payment_success", 0,
                                              "Payment verified successfully.")]
     \/ /\ db_may_refuse(workers[w].upi_id)
        /\ payments' = payments
        /\ workers' = [workers EXCEPT ![w].pc = "done", ![w].resp = Http500]
  /\ UNCHANGED <<today, plans, admissions, req, resp>>

\* the rows of one admission and of the pending payments upi_redirect made for it
InitConc ==
  /\ today = 0
  /\ plans = PlanIds
  /\ \E f \in Forms :
       /\ is_valid(f)
       /\ f.duration_months[1] > 0
       /\ LET admission == AdmissionForm_save(f)
          IN  admissions =
                <<[admission EXCEPT !.total_amount = view_total_amount(admission)]>>
  /\ \E n \in 1..MaxPayments :
       payments = [i \in 1..n |->
                     new_payment(1, amount_of(admissions[1]), MaxPayments + 2 - i)]
  /\ req = NoReq
  /\ resp = NoResp
  /\ workers = [w \in Workers |-> IdleWorker]

NextConc ==
  \/ \E w \in Workers, i \in PaymentIds, r \in Refs : confirm_begin(w, "POST", i, r)
  \/ \E w \in Workers, i \in PaymentIds : confirm_begin(w, "GET", i, <<>>)
  \/ \E w \in Workers : confirm_save(w)

SpecConc == InitConc /\ [][NextConc]_vars

\* ================================================================ claims
Submitted ==
  /\ req.view = "admission_form"
  /\ resp.kind = "redirect"
  /\ resp.to = "payment_form"
  /\ resp.msg = "Application submitted - continue to payment."

\* ---------------------------------------------------------------- C1
\* a reference is valid when, its leading and trailing whitespace removed,
\* it has 4 to 128 characters and none of them is whitespace
C1_ValidRef(ref) ==
  \E a \in 0..Len(ref) : \E b \in a..Len(ref) :
    /\ \A i \in 1..a : ref[i] \in {" ", "\t", "\n"}
    /\ \A i \in (b + 1)..Len(ref) : ref[i] \in {" ", "\t", "\n"}
    /\ \A i \in (a + 1)..b : ref[i] \notin {" ", "\t", "\n"}
    /\ b - a >= 4
    /\ b - a <= 128

C1_Step ==
  /\ Len(payments') >= Len(payments)
  /\ \A i \in 1..Len(payments) :
       /\ payments'[i].status # payments[i].status =>
            /\ payments[i].status = "pending"
            /\ payments'[i].status = "success"
            /\ req'.view = "confirm_payment"
            /\ req'.method = "POST"
            /\ req'.id = i
            /\ C1_ValidRef(req'.ref)
       /\ payments[i].status # "pending" =>
            /\ payments'[i] = payments[i]
            /\ (req'.view = "confirm_payment" /\ req'.method = "POST" /\ req'.id = i) =>
                 /\ resp'.kind = "redirect"
                 /\ resp'.to = "payment_success"
                 /\ resp'.msg = "Payment already processed."
       /\ payments'[i].status # "failed"

\* C1: in every step of the views a payment's status changes only from
\* 'pending' to 'success', and only in a POST to confirm_payment for that
\* payment with a valid reference; a payment that is not pending is left as it
\* is, a POST to confirm_payment for it is answered 'Payment already
\* processed.' with a redirect to payment_success; no status becomes 'failed'
\* or goes back to 'pending'.
C1_StatusLifeCycle == [][C1_Step]_vars

C1_Witness ==
  /\ req.view = "confirm_payment"
  /\ req.method = "POST"
  /\ req.id \in 1..Len(payments)
  /\ payments[req.id].status = "success"
  /\ resp.msg = "Payment already processed."

\* ---------------------------------------------------------------- C2
C2_Price(p) == default_plans[p].price_month * 100

\* C2: the admission just stored by admission_form has total_amount =
\* plan.price_month * duration_months for the plan selected; whenever
\* admission_form has answered a POST, for every form the form accepts the
\* amount the view computes equals the amount AdmissionForm.save computes,
\* and an instance without a plan gets 0.00 from both.
C2_TotalAmount ==
  /\ Submitted =>
       /\ resp.id = Len(admissions)
       /\ admissions[resp.id].plan # <<>>
       /\ admissions[resp.id].total_amount =
            C2_Price(admissions[resp.id].plan[1]) * admissions[resp.id].duration_months
  /\ (req.view = "admission_form" /\ req.method = "POST") =>
       \A f \in Forms :
         /\ is_valid(f) =>
              view_total_amount(AdmissionForm_save(f)) = AdmissionForm_save(f).total_amount
         /\ LET g == AdmissionForm_save([f EXCEPT !.plan = <<>>])
            IN  g.total_amount = 0 /\ view_total_amount(g) = 0

C2_Witness ==
  /\ Submitted
  /\ admissions[resp.id].plan = <<2>>
  /\ admissions[resp.id].duration_months = 2
  /\ admissions[resp.id].total_amount = 399800

\* ---------------------------------------------------------------- C3
C3_Step ==
  /\ Len(payments') # Len(payments) =>
       /\ req'.view = "upi_redirect"
       /\ req'.method = "POST"
       /\ req'.id \in 1..Len(admissions)
       /\ admissions[req'.id].plan # <<>>
       /\ admissions[req'.id].total_amount > 0
       /\ Len(payments') = Len(payments) + 1
       /\ SubSeq(payments', 1, Len(payments)) = payments
       /\ payments'[Len(payments')].admission = req'.id
       /\ payments'[Len(payments')].status = "pending"
       /\ payments'[Len(payments')].payment_mode = "UPI"
       /\ payments'[Len(payments')].amount = admissions[req'.id].total_amount
  /\ \A i \in 1..Len(payments') :
       /\ payments'[i].admission \in 1..Len(admissions')
       /\ payments'[i].amount > 0
       /\ payments'[i].amount = admissions'[payments'[i].admission].total_amount

\* C3: a payment row appears only in a POST to upi_redirect for an existing
\* admission that has a plan and a total_amount above 0, and the row is
\* pending, 'UPI' and of that amount; so after every step each payment has
\* amount > 0 and amount = the total_amount of its admission.
C3_PaymentGate == [][C3_Step]_vars

C3_Witness ==
  /\ req.view = "upi_redirect"
  /\ req.method = "POST"
  /\ resp.msg = "Plan missing. Contact admin."
  /\ Len(payments) > 0
  /\ payments[1].admission = req.id

\* ---------------------------------------------------------------- C4
\* C4: the admission just stored by admission_form, to whose payment page the
\* applicant is sent, has a plan and a total_amount above 0 (payment_form
\* accepts it).
C4_ContinueToPayment ==
  Submitted =>
    /\ admissions[resp.id].plan # <<>>
    /\ admissions[resp.id].total_amount > 0

\* ---------------------------------------------------------------- C5
\* 7 to 15 digits, an optional leading "+", spaces and dashes between them,
\* at most 20 characters
C5_PhoneOk(phone) ==
  LET digits == {i \in 1..Len(phone) :
                   phone[i] \in {"0", "1", "2", "3", "4", "5", "6", "7", "8", "9"}}
  IN  /\ Cardinality(digits) >= 7
      /\ Cardinality(digits) <= 15
      /\ Len(phone) <= 20
      /\ \A i \in 1..Len(phone) :
           \/ i \in digits
           \/ phone[i] \in {" ", "-"}
           \/ phone[i] = "+" /\ \A j \in 1..(i - 1) : phone[j] \in {" ", "-"}

C5_Step ==
  /\ admissions' # admissions /\ req' # req =>
       /\ req'.view = "admission_form"
       /\ req'.method = "POST"
       /\ Len(admissions') = Len(admissions) + 1
       /\ SubSeq(admissions', 1, Len(admissions)) = admissions
       /\ admissions'[Len(admissions')].plan # <<>>
       /\ admissions'[Len(admissions')].plan[1] \in plans
       /\ admissions'[Len(admissions')].agreed_terms = TRUE
       /\ admissions'[Len(admissions')].start_date >= today
       /\ admissions'[Len(admissions')].duration_months >= 0
       /\ C5_PhoneOk(admissions'[Len(admissions')].phone)
  /\ req'.view = "admission_form" =>
       /\ payments' = payments
       /\ plans' = plans
       /\ req'.method = "GET" => admissions' = admissions
       /\ resp'.msg = "Fix the errors and try again." => admissions' = admissions

\* C5: a request changes the admissions only by admission_form storing one
\* row on a POST, and that row has a plan (one of the plans), agreed_terms
\* True, a start_date not before the day of the request, and a phone and a
\* duration the validators accept; a GET and a POST answered 'Fix the
\* errors' store nothing; admission_form never changes a payment.
C5_StoredOnlyIfValid == [][C5_Step]_vars

C5_Witness ==
  /\ req.view = "admission_form"
  /\ req.method = "POST"
  /\ resp.msg = "Fix the errors and try again."
  /\ Len(admissions) = 1
  /\ Len(payments) > 0

\* ---------------------------------------------------------------- C6
C6_Digit(c) ==
  CHOOSE d \in 0..9 : <<"0", "1", "2", "3", "4", "5", "6", "7", "8", "9">>[d + 1] = c

RECURSIVE C6_Number(_)
C6_Number(s) ==
  IF s = <<>> THEN 0 ELSE 10 * C6_Number(SubSeq(s, 1, Len(s) - 1)) + C6_Digit(s[Len(s)])

C6_IsNumber(s) ==
  /\ s # <<>>
  /\ \A i \in 1..Len(s) : s[i] \in {"0", "1", "2", "3", "4", "5", "6", "7", "8", "9"}

\* "1998.00" is 199800
C6_IsAmount(s, amount) ==
  /\ Len(s) >= 4
  /\ s[Len(s) - 2] = "."
  /\ C6_IsNumber(SubSeq(s, 1, Len(s) - 3))
  /\ C6_IsNumber(SubSeq(s, Len(s) - 1, Len(s)))
  /\ 100 * C6_Number(SubSeq(s, 1, Len(s) - 3)) + C6_Number(SubSeq(s, Len(s) - 1, Len(s)))
       = amount

C6_IsNote(s, admission_id) ==
  /\ Len(s) > 10
  /\ SubSeq(s, 1, 10) = <<"A", "d", "m", "i", "s", "s", "i", "o", "n", "-">>
  /\ C6_IsNumber(SubSeq(s, 11, Len(s)))
  /\ C6_Number(SubSeq(s, 11, Len(s))) = admission_id

C6_Param(link, key) ==
  LET i == CHOOSE j \in 1..Len(link) : link[j][1] = key IN link[i][2]

C6_HasParam(link, key) == \E j \in 1..Len(link) : link[j][1] = key

\* the word in the agent, in any mix of cases
C6_Mentions(agent, lower, upper) ==
  \E i \in 0..(Len(agent) - Len(lower)) :
    \A j \in 1..Len(lower) : agent[i + j] = lower[j] \/ agent[i + j] = upper[j]

C6_Mobile(agent) ==
  \/ C6_Mentions(agent, <<"m", "o", "b", "i">>, <<"M", "O", "B", "I">>)
  \/ C6_Mentions(agent, <<"a", "n", "d", "r", "o", "i", "d">>,
                 <<"A", "N", "D", "R", "O", "I", "D">>)
  \/ C6_Mentions(agent, <<"i", "p", "h", "o", "n", "e">>,
                 <<"I", "P", "H", "O", "N", "E">>)

C6_Step ==
  (/\ req'.view = "upi_redirect"
   /\ req'.method = "POST"
   /\ req'.id \in 1..Len(admissions)
   /\ admissions[req'.id].plan # <<>>
   /\ admissions[req'.id].total_amount > 0) =>
     LET n == Len(payments')
         link == resp'.upi_link
     IN  /\ n = Len(payments) + 1
         /\ SubSeq(payments', 1, Len(payments)) = payments
         /\ payments'[n].status = "pending"
         /\ payments'[n].admission = req'.id
         /\ \A i \in 1..Len(payments) :
              payments[i].transaction_id # payments'[n].transaction_id
         /\ \A k \in {"am", "tn", "tr", "cu"} : C6_HasParam(link, k)
         /\ C6_IsAmount(C6_Param(link, "am"), admissions[req'.id].total_amount)
         /\ C6_IsNote(C6_Param(link, "tn"), req'.id)
         /\ C6_Param(link, "tr") = UuidStr(payments'[n].transaction_id)
         /\ C6_Param(link, "cu") = <<"I", "N", "R">>
         /\ IF C6_Mobile(req'.agent)
              THEN resp'.kind = "redirect" /\ resp'.to = "upi"
              ELSE /\ resp'.kind = "render"
                   /\ resp'.to = "upi_redirect.html"
                   /\ resp'.payment = n
                   /\ C6_IsAmount(resp'.amount, admissions[req'.id].total_amount)

Verified(w) ==
  /\ workers[w].pc = "done"
  /\ workers[w].resp.msg = "Payment verified successfully."

\* C7: of two requests to confirm_payment for the same payment with
\* different valid references, at most one is answered 'Payment verified
\* successfully.' (the other finds the payment processed and leaves the
\* stored reference alone).
C7_ConfirmedOnce ==
  \A v \in Workers, w \in Workers :
    (/\ v # w
     /\ workers[v].id = workers[w].id
     /\ workers[v].upi_id # workers[w].upi_id) => ~(Verified(v) /\ Verified(w))

====
